---- MODULE Spec2Model ----
(***************************************************************************)
(* Model of src/save.rs: save_workbook_with_changes, write_cell_value and  *)
(* write_calamine_data.                                                    *)
(*                                                                         *)
(* One call of save_workbook_with_changes is a run of the state machine.   *)
(* The file system holds the three paths the call names (the destination,  *)
(* its backup and its temporary sibling): a directory from each path to    *)
(* its entry (none, a file's inode, or a symbolic link) and the content of *)
(* each inode, so that two paths may name one file.                        *)
(* The source document is the content of the destination before            *)
(* the call, as calamine exposes it: a sequence of sheets, each a          *)
(* rectangular range with a start position.  The output document is the    *)
(* rust_xlsxwriter workbook: a sequence of worksheets, each a name and a   *)
(* partial map from (row, col) to the cell written there.                  *)
(*                                                                         *)
(* f64 values are represented in halves: the integer n stands for the      *)
(* double n/2, so Int(30) is written as the number 60 (30.0) and a Float   *)
(* or a DateTime serial may hold a fraction.  All integers of the model    *)
(* are far below 2^53, where `as f64` is exact.                            *)
(***************************************************************************)
EXTENDS Integers, Sequences, FiniteSets, TLC

VARIABLES
    fs,               \* [dir: path -> entry, data: inode -> content]
    fs0,              \* fs as it was before the call
    changeset,        \* the Changeset argument: a set of <<coordinate, edit>>
    workbook,         \* the sheets of the opened source (line 15)
    sheet_idx,        \* position of the `for sheet_name in sheet_names` loop
    output_workbook,  \* the XlsxWorkbook being built (line 19)
    pc,               \* the statement the call is at
    err,              \* the step whose error the call returned, or "none"
    cleanup           \* what fs::remove_file of line 81 returned

vars == <<fs, fs0, changeset, workbook, sheet_idx, output_workbook, pc, err, cleanup>>

\* ------------------------------------------------------------------ bounds

MaxRows == 2
MaxCols == 2
MaxStart == 1
MaxCoord == 2
MaxEdits == 2

\* ------------------------------------------------------------------- paths

\* A path is its file stem and its extension.
original_path == [stem |-> "book", extension |-> "xlsx"]

\* Path::with_extension: the extension replaced.
with_extension(p, e) == [p EXCEPT !.extension = e]

backup_path(p) == with_extension(p, "xlsx.bak")

temp_path(p) == with_extension(p, "xlsx.tmp")

Paths == {original_path, backup_path(original_path), temp_path(original_path)}

\* ----------------------------------------------------------- file contents

\* The content of an inode no file has.
Absent == [kind |-> "absent"]

\* A file that is no spreadsheet document.
Garbage == [kind |-> "garbage"]

\* A file of its own left at the path by something earlier.
Stale == [kind |-> "stale"]

\* A file created or truncated and not written to its end (empty, or cut
\* short).
Partial == [kind |-> "partial"]

\* A spreadsheet document calamine reads as `sheets`.
SourceFile(sheets) == [kind |-> "workbook", sheets |-> sheets]

\* What XlsxWorkbook::save writes for the worksheets `out`.
Serialize(out) == [kind |-> "xlsx", worksheets |-> out]

\* Directory entries.  An inode is named by the path it was created at.
NoEntry == [kind |-> "none"]
FileEntry(ino) == [kind |-> "file", ino |-> ino]
Symlink(target) == [kind |-> "symlink", target |-> target]

NoInode == [stem |-> "", extension |-> ""]

NoPath == [stem |-> "", extension |-> "loop"]

\* The path a chain of symbolic links ends at, in at most n steps: a path
\* that holds a file or has no entry; NoPath when the links never end.
RECURSIVE Follow(_, _, _)
Follow(f, p, n) ==
    LET e == f.dir[p]
    IN  IF e.kind = "symlink"
        THEN IF n = 0 THEN NoPath ELSE Follow(f, e.target, n - 1)
        ELSE p

\* The path the OS reaches from p, every link followed.  A chain among the
\* paths of the call that does not end within their number is a loop.
Target(f, p) == Follow(f, p, Cardinality(Paths))

\* The inode the path leads to, symbolic links followed; NoInode when the
\* path has no entry or its links lead to no file (dangling, or a loop).
Resolve(f, p) ==
    LET q == Target(f, p)
    IN  IF q # NoPath /\ f.dir[q].kind = "file" THEN f.dir[q].ino ELSE NoInode

\* What reading the path gives.
FileAt(f, p) == IF Resolve(f, p) = NoInode THEN Absent ELSE f.data[Resolve(f, p)]

\* Path::exists, which follows links.
Exists(f, p) == Resolve(f, p) # NoInode

\* The directory has an entry at the path: a file or a link, of whatever
\* target.
HasEntry(f, p) == f.dir[p].kind # "none"

\* ------------------------------------------------------------- cell values

\* calamine::Data
DataEmpty == [k |-> "Empty"]
DataString(s) == [k |-> "String", v |-> s]
DataInt(n) == [k |-> "Int", v |-> n]
DataFloat(x) == [k |-> "Float", v |-> x]
DataBool(b) == [k |-> "Bool", v |-> b]
DataError(e) == [k |-> "Error", v |-> e]
DataDateTime(dt) == [k |-> "DateTime", v |-> dt]
DataDateTimeIso(s) == [k |-> "DateTimeIso", v |-> s]
DataDurationIso(s) == [k |-> "DurationIso", v |-> s]

\* crate::workbook::CellValue
CellEmpty == [k |-> "Empty"]
CellString(s) == [k |-> "String", v |-> s]
CellInt(n) == [k |-> "Int", v |-> n]
CellFloat(x) == [k |-> "Float", v |-> x]
CellBool(b) == [k |-> "Bool", v |-> b]
CellError(e) == [k |-> "Error", v |-> e]
CellDateTime(serial) == [k |-> "DateTime", v |-> serial]

\* calamine::CellErrorType
CellErrorTypes ==
    {"CellErrorType::Div0", "CellErrorType::NA", "CellErrorType::Name",
     "CellErrorType::Null", "CellErrorType::Num", "CellErrorType::Ref",
     "CellErrorType::Value", "CellErrorType::GettingData"}

\* format!("{:?}", e): the derived Debug of CellErrorType, the variant's name.
DebugFmt(e) ==
    CASE e = "CellErrorType::Div0" -> "Div0"
      [] e = "CellErrorType::NA" -> "NA"
      [] e = "CellErrorType::Name" -> "Name"
      [] e = "CellErrorType::Null" -> "Null"
      [] e = "CellErrorType::Num" -> "Num"
      [] e = "CellErrorType::Ref" -> "Ref"
      [] e = "CellErrorType::Value" -> "Value"
      [] e = "CellErrorType::GettingData" -> "GettingData"

\* format!("{}", e): the Display of CellErrorType, the text a spreadsheet shows.
DisplayFmt(e) ==
    CASE e = "CellErrorType::Div0" -> "#DIV/0!"
      [] e = "CellErrorType::NA" -> "#N/A"
      [] e = "CellErrorType::Name" -> "#NAME?"
      [] e = "CellErrorType::Null" -> "#NULL!"
      [] e = "CellErrorType::Num" -> "#NUM!"
      [] e = "CellErrorType::Ref" -> "#REF!"
      [] e = "CellErrorType::Value" -> "#VALUE!"
      [] e = "CellErrorType::GettingData" -> "#DATA!"

\* `n as f64`, in halves.
AsF64(n) == 2 * n

\* ExcelDateTime::as_f64: the serial the value holds.
DateTimeAsF64(dt) == dt.value

\* A text of more than 32767 characters, which rust_xlsxwriter refuses.
OverlongText == "<a text of 32768 characters>"

\* --------------------------------------------------------------- worksheet

\* Worksheet results: Ok(the worksheet) or Err.
Ok(ws) == [ok |-> TRUE, ws |-> ws]
Err(step) == [ok |-> FALSE, err |-> step]

NewWorksheet == [name |-> "", cells |-> <<>>]

PutCell(ws, row, col, cell) ==
    [ws EXCEPT !.cells = (<<row, col>> :> cell) @@ ws.cells]

\* Worksheet::write_string
write_string(ws, row, col, s) ==
    IF s = OverlongText
    THEN Err("write")
    ELSE Ok(PutCell(ws, row, col, [t |-> "string", v |-> s]))

\* Worksheet::write_number
write_number(ws, row, col, x) ==
    Ok(PutCell(ws, row, col, [t |-> "number", v |-> x, num_format |-> "General"]))

\* Worksheet::write_boolean
write_boolean(ws, row, col, b) ==
    Ok(PutCell(ws, row, col, [t |-> "boolean", v |-> b]))

\* Worksheet::write_number_with_format
write_number_with_format(ws, row, col, x, format) ==
    Ok(PutCell(ws, row, col, [t |-> "number", v |-> x, num_format |-> format]))

\* A sheet name rust_xlsxwriter's set_name refuses.
InvalidSheetName == "Q1/Q2"

\* Worksheet::set_name
set_name(ws, name) ==
    IF name = InvalidSheetName
    THEN Err("set_name")
    ELSE Ok([ws EXCEPT !.name = name])

\* --------------------------------------------------------- the conversions

write_cell_value(ws, row, col, value) ==
    CASE value.k = "Empty" -> write_string(ws, row, col, "")
      [] value.k = "String" -> write_string(ws, row, col, value.v)
      [] value.k = "Int" -> write_number(ws, row, col, AsF64(value.v))
      [] value.k = "Float" -> write_number(ws, row, col, value.v)
      [] value.k = "Bool" -> write_boolean(ws, row, col, value.v)
      [] value.k = "Error" -> write_string(ws, row, col, value.v)
      [] value.k = "DateTime" ->
            write_number_with_format(ws, row, col, value.v, "yyyy-mm-dd hh:mm:ss")

write_calamine_data(ws, row, col, data) ==
    CASE data.k = "Empty" -> Ok(ws)
      [] data.k = "String" -> write_string(ws, row, col, data.v)
      [] data.k = "Int" -> write_number(ws, row, col, AsF64(data.v))
      [] data.k = "Float" -> write_number(ws, row, col, data.v)
      [] data.k = "Bool" -> write_boolean(ws, row, col, data.v)
      [] data.k = "Error" -> write_string(ws, row, col, DebugFmt(data.v))
      [] data.k = "DateTime" ->
            write_number_with_format(ws, row, col, DateTimeAsF64(data.v),
                                     "yyyy-mm-dd hh:mm:ss")
      [] data.k = "DateTimeIso" -> write_string(ws, row, col, data.v)
      [] data.k = "DurationIso" -> write_string(ws, row, col, data.v)

\* ---------------------------------------------------------------- the merge

CellCoordinate(name, row, col) == [sheet_name |-> name, row |-> row, col |-> col]

\* Changeset::edits_for_sheet: the (coordinate, edit) pairs of the sheet.
edits_for_sheet(cs, name) == {p \in cs : p[1].sheet_name = name}

\* A source sheet is [name, start, rows]: rows is range.rows(), a sequence of
\* rows of equal width; start is range.start(), the absolute position of
\* rows[1][1].
Height(sheet) == Len(sheet.rows)
Width(sheet) == IF sheet.rows = <<>> THEN 0 ELSE Len(sheet.rows[1])

\* The two nested loops of lines 40-61 from the k-th cell on, in row-major
\* order; the first write that fails ends them.
RECURSIVE CopyCells(_, _, _, _)
CopyCells(ws, sheet, edits, k) ==
    IF k >= Height(sheet) * Width(sheet)
    THEN Ok(ws)
    ELSE LET row_idx == k \div Width(sheet)
             col_idx == k % Width(sheet)
             cell == sheet.rows[row_idx + 1][col_idx + 1]
             coord == CellCoordinate(sheet.name, row_idx, col_idx)
             has_edit == \E p \in edits : p[1] = coord
             r == IF has_edit
                  THEN LET edit == (CHOOSE p \in edits : p[1] = coord)[2]
                       IN  write_cell_value(ws, row_idx, col_idx, edit.new_value)
                  ELSE write_calamine_data(ws, row_idx, col_idx, cell)
         IN  IF r.ok THEN CopyCells(r.ws, sheet, edits, k + 1) ELSE r

\* One iteration of the loop over the sheets, lines 25-62.
CopySheetResult(sheet, cs, read_ok) ==
    IF ~read_ok
    THEN Err("read")
    ELSE LET named == set_name(NewWorksheet, sheet.name)
         IN  IF ~named.ok
             THEN named
             ELSE CopyCells(named.ws, sheet, edits_for_sheet(cs, sheet.name), 0)

\* ------------------------------------------------------------ file system

\* Opening the path with create and truncate (File::create, and the target of
\* fs::copy) follows the links of the path and is possible unless they loop:
\* it opens the file they lead to, or creates one where they end.
CanCreate(f, p) == Target(f, p) # NoPath

\* File::create: the file the path leads to is emptied, whatever other names
\* it has; where the path, its links followed, has no entry a new, empty file
\* is made.
fs_truncate(f, p) ==
    LET q == Target(f, p)
    IN  IF f.dir[q].kind = "file"
        THEN [f EXCEPT !.data[f.dir[q].ino] = Partial]
        ELSE [f EXCEPT !.dir[q] = FileEntry(q), !.data[q] = Partial]

\* The open file written to its end.
fs_write(f, p, content) == [f EXCEPT !.data[Resolve(f, p)] = content]

\* std::fs::copy once `to` is created or truncated: what `from` holds by then
\* is written to it.
fs_copy(f, from, to) == fs_write(f, to, FileAt(f, from))

\* std::fs::rename: the entry of `from`, a link not followed, replaces the
\* entry of `to`; nothing happens when both are names of one file.
fs_rename(f, from, to) ==
    IF f.dir[from].kind = "file" /\ f.dir[from] = f.dir[to]
    THEN f
    ELSE [f EXCEPT !.dir[to] = f.dir[from], !.dir[from] = NoEntry]

fs_remove_file_kept(f, p) == f

\* std::fs::remove_file: the entry removed, a link not followed.
fs_remove_file(f, p) == [f EXCEPT !.dir[p] = NoEntry]

\* `if original_path.exists()` of line 66.
need_backup(f, p) == Exists(f, p)

\* ----------------------------------------------------------------- actions

Fail(step) == pc' = "err" /\ err' = step

\* Lines 15-25: open_workbook_auto, XlsxWorkbook::new, sheet_names and the
\* entry of the loop over them, which a document without sheets leaves at
\* once for the commit.  The open fails when the file is missing or is no
\* spreadsheet, and may fail on a read error.
OpenCreatesTemp ==
    /\ pc = "open"
    /\ \E io_ok \in BOOLEAN :
          IF io_ok /\ FileAt(fs, original_path).kind = "workbook"
          THEN /\ workbook' = FileAt(fs, original_path).sheets
               /\ output_workbook' = <<>>
               /\ sheet_idx' = 1
               /\ pc' = IF Len(FileAt(fs, original_path).sheets) = 0
                        THEN "backup" ELSE "sheets"
               /\ fs' = IF CanCreate(fs, temp_path(original_path))
                        THEN fs_truncate(fs, temp_path(original_path))
                        ELSE fs
               /\ UNCHANGED <<err>>
          ELSE /\ Fail("open")
               /\ UNCHANGED <<workbook, output_workbook, sheet_idx, fs>>
    /\ UNCHANGED <<fs0, changeset, cleanup>>

Open ==
    /\ pc = "open"
    /\ \E io_ok \in BOOLEAN :
          IF io_ok /\ FileAt(fs, original_path).kind = "workbook"
          THEN /\ workbook' = FileAt(fs, original_path).sheets
               /\ output_workbook' = <<>>
               /\ sheet_idx' = 1
               /\ pc' = IF Len(FileAt(fs, original_path).sheets) = 0
                        THEN "backup" ELSE "sheets"
               /\ UNCHANGED <<err>>
          ELSE /\ Fail("open")
               /\ UNCHANGED <<workbook, output_workbook, sheet_idx>>
    /\ UNCHANGED <<fs, fs0, changeset, cleanup>>

\* Lines 25-62, one iteration: worksheet_range (which may fail), add_worksheet,
\* set_name, edits_for_sheet and the copy of every cell of the range.
CopySheet ==
    /\ pc = "sheets"
    /\ sheet_idx <= Len(workbook)
    /\ \E read_ok \in BOOLEAN :
          LET r == CopySheetResult(workbook[sheet_idx], changeset, read_ok)
          IN  IF r.ok
              THEN /\ output_workbook' = Append(output_workbook, r.ws)
                   /\ sheet_idx' = sheet_idx + 1
                   /\ pc' = IF sheet_idx = Len(workbook) THEN "backup" ELSE "sheets"
                   /\ UNCHANGED <<err>>
              ELSE /\ Fail(r.err)
                   /\ UNCHANGED <<output_workbook, sheet_idx>>
    /\ UNCHANGED <<fs, fs0, changeset, workbook, cleanup>>

\* Lines 65-67: the backup path, the exists() test, and fs::copy as far as
\* creating (or truncating) the file at the backup path; the copy fails here
\* when the file cannot be created.  A backup path that is another name of
\* the destination (a hard link, or a symbolic link to it) leaves the
\* destination empty.
BackupBegin ==
    /\ pc = "backup"
    /\ IF need_backup(fs, original_path)
       THEN \E created \in BOOLEAN :
               IF created /\ CanCreate(fs, backup_path(original_path))
               THEN /\ fs' = fs_truncate(fs, backup_path(original_path))
                    /\ pc' = "backup_copying"
                    /\ UNCHANGED <<err>>
               ELSE /\ Fail("backup")
                    /\ UNCHANGED <<fs>>
       ELSE /\ pc' = "save"
            /\ UNCHANGED <<fs, err>>
    /\ UNCHANGED <<fs0, changeset, workbook, sheet_idx, output_workbook, cleanup>>

\* Lines 67-69: fs::copy writes the backup to its end, or stops on an error
\* and leaves it cut short.
BackupFinish ==
    /\ pc = "backup_copying"
    /\ \E copied \in BOOLEAN :
          IF copied
          THEN /\ fs' = fs_copy(fs, original_path, backup_path(original_path))
               /\ pc' = "save"
               /\ UNCHANGED <<err>>
          ELSE /\ Fail("backup")
               /\ UNCHANGED <<fs>>
    /\ UNCHANGED <<fs0, changeset, workbook, sheet_idx, output_workbook, cleanup>>

\* Lines 72-73: the temp path, and XlsxWorkbook::save as far as File::create.
SaveBegin ==
    /\ pc = "save"
    /\ \E created \in BOOLEAN :
          IF created /\ CanCreate(fs, temp_path(original_path))
          THEN /\ fs' = fs_truncate(fs, temp_path(original_path))
               /\ pc' = "save_writing"
               /\ UNCHANGED <<err>>
          ELSE /\ Fail("save")
               /\ UNCHANGED <<fs>>
    /\ UNCHANGED <<fs0, changeset, workbook, sheet_idx, output_workbook, cleanup>>

\* Lines 73-74: XlsxWorkbook::save writes the document to its end, or stops on
\* an error; nothing removes the file it created.
SaveFinish ==
    /\ pc = "save_writing"
    /\ \E written \in BOOLEAN :
          IF written
          THEN /\ fs' = fs_write(fs, temp_path(original_path),
                                   Serialize(output_workbook))
               /\ pc' = "rename"
               /\ UNCHANGED <<err>>
          ELSE /\ Fail("save")
               /\ UNCHANGED <<fs>>
    /\ UNCHANGED <<fs0, changeset, workbook, sheet_idx, output_workbook, cleanup>>

\* Lines 77-78: fs::rename, atomic: done, or failed with nothing changed.
Rename ==
    /\ pc = "rename"
    /\ \E renamed \in BOOLEAN :
          IF renamed /\ HasEntry(fs, temp_path(original_path))
          THEN /\ fs' = fs_rename(fs, temp_path(original_path), original_path)
               /\ pc' = "cleanup"
               /\ UNCHANGED <<err>>
          ELSE /\ Fail("rename")
               /\ UNCHANGED <<fs>>
    /\ UNCHANGED <<fs0, changeset, workbook, sheet_idx, output_workbook, cleanup>>

\* Lines 81-83: `let _ = fs::remove_file(&backup_path)` and Ok(()): the removal
\* may fail, and its result is dropped.
RemoveBackup ==
    /\ pc = "cleanup"
    /\ \E removed \in BOOLEAN :
          IF removed /\ HasEntry(fs, backup_path(original_path))
          THEN /\ fs' = fs_remove_file(fs, backup_path(original_path))
               /\ cleanup' = "removed"
          ELSE /\ fs' = fs
               /\ cleanup' = "failed"
    /\ pc' = "ok"
    /\ UNCHANGED <<fs0, changeset, workbook, sheet_idx, output_workbook, err>>

Next ==
    \/ Open
    \/ CopySheet
    \/ BackupBegin
    \/ BackupFinish
    \/ SaveBegin
    \/ SaveFinish
    \/ Rename
    \/ RemoveBackup

\* The in-memory part of the call alone: lines 15-62.
NextMerge ==
    \/ Open
    \/ CopySheet

\* ------------------------------------------------------------------ inputs

\* calamine builds a range as the bounding box of the sheet's cells that hold
\* a value: its first and last row and its first and last column each hold
\* one.  An empty sheet gives the empty range.
RowHasValue(rows, i) == \E j \in 1..Len(rows[i]) : rows[i][j] # DataEmpty
ColHasValue(rows, j) == \E i \in 1..Len(rows) : rows[i][j] # DataEmpty
IsBoundingBox(rows) ==
    \/ rows = <<>>
    \/ /\ Len(rows[1]) > 0
       /\ RowHasValue(rows, 1) /\ RowHasValue(rows, Len(rows))
       /\ ColHasValue(rows, 1) /\ ColHasValue(rows, Len(rows[1]))

Sheet(name, start, rows) == [name |-> name, start |-> start, rows |-> rows]

\* One source cell of every kind of calamine::Data.
DataSamples ==
    {DataEmpty, DataString("Alice"), DataString(OverlongText), DataInt(30),
     DataFloat(5), DataBool(TRUE), DataError("CellErrorType::Div0"),
     DataError("CellErrorType::NA"),
     DataDateTime([value |-> 90001, datetime_type |-> "DateTime"]),
     DataDateTimeIso("2024-01-15T10:30:00"), DataDurationIso("PT1H30M")}

\* One edit value of every kind of CellValue.
CellValueSamples ==
    {CellEmpty, CellString("Bob"), CellString(OverlongText), CellInt(31),
     CellFloat(7), CellBool(FALSE), CellError("#DIV/0!"), CellDateTime(90001)}

Edit(coord, value) == <<coord, [new_value |-> value]>>

\* The documents of the commit protocol's runs: no sheet, or one sheet, of a
\* valid or an invalid name, whose range is one row of a sample cell, an empty
\* cell and a text.
SampleWorkbooks ==
    {<<>>} \cup
    {<<Sheet(name, <<0, 0>>, <<r>>)>> :
        name \in {"Sheet1", InvalidSheetName},
        r \in {<<d>> : d \in DataSamples \ {DataEmpty}}
              \cup {<<d, DataEmpty, DataString("Carol")>> : d \in {DataInt(30)}}}

SampleChangesets ==
    {{}} \cup {{Edit(CellCoordinate("Sheet1", 0, 0), v)} : v \in CellValueSamples}

\* The documents of the merge's runs: every range of up to MaxRows rows and
\* MaxCols columns starting up to MaxStart rows and columns from the origin,
\* filled with one of three patterns of empty cells, texts and integers.
MergePalette == <<DataEmpty, DataString("Alice"), DataInt(30)>>

PatternRows(h, w, seed) ==
    [i \in 1..h |-> [j \in 1..w |-> MergePalette[((i + j + seed) % 3) + 1]]]

MergeRanges ==
    {rows \in {PatternRows(h, w, seed) : h \in 1..MaxRows, w \in 1..MaxCols,
                                         seed \in 0..2} : IsBoundingBox(rows)}

MergeSheets ==
    {Sheet("Sheet1", <<0, 0>>, <<>>)} \cup
    {Sheet("Sheet1", <<r0, c0>>, rows) :
        r0 \in 0..MaxStart, c0 \in 0..MaxStart, rows \in MergeRanges}

MergeWorkbooks ==
    {<<>>} \cup
    {<<s>> : s \in MergeSheets}
    \cup {<<s, Sheet("Sheet2", <<0, 0>>, <<<<DataString("Dave")>>>>)>> :
            s \in MergeSheets}

\* The changesets of the merge's runs: up to MaxEdits edits, of the cells of
\* Sheet1 at rows and columns up to MaxCoord and of the first and the last
\* such cell of Sheet2, the edit's value set by its position.
EditPalette == <<CellString("Bob"), CellEmpty, CellInt(31), CellString(OverlongText)>>

EditAt(name, row, col) ==
    Edit(CellCoordinate(name, row, col), EditPalette[((row + 2 * col) % 4) + 1])

MergeEdits ==
    {EditAt("Sheet1", row, col) : row \in 0..MaxCoord, col \in 0..MaxCoord}
    \cup {EditAt("Sheet2", 0, 0), EditAt("Sheet2", MaxCoord, MaxCoord)}

RECURSIVE SubsetsUpTo(_, _)
SubsetsUpTo(S, n) ==
    IF n = 0
    THEN {{}}
    ELSE LET smaller == SubsetsUpTo(S, n - 1)
         IN  smaller \cup {cs \cup {e} : cs \in smaller, e \in S}

MergeChangesets == SubsetsUpTo(MergeEdits, MaxEdits)

\* ----------------------------------------------------------- specifications

\* What the call may find at the backup or the temp path p: nothing, a file
\* of its own, a hard link of the destination, or a symbolic link to any of
\* the three paths (itself included).
OldEntries(p) ==
    {NoEntry, FileEntry(p), FileEntry(original_path)}
        \cup {Symlink(q) : q \in Paths}

InitWith(dests, changesets, links) ==
    /\ \E d \in dests :
       \E b \in IF links THEN OldEntries(backup_path(original_path)) ELSE {NoEntry} :
       \E t \in IF links THEN OldEntries(temp_path(original_path)) ELSE {NoEntry} :
          /\ d = Absent => FileEntry(original_path) \notin {b, t}
          /\ fs = [dir |-> [p \in Paths |->
                              IF p = original_path
                              THEN (IF d = Absent THEN NoEntry ELSE FileEntry(p))
                              ELSE IF p = backup_path(original_path) THEN b ELSE t],
                   data |-> [p \in Paths |->
                              IF p = original_path
                              THEN d
                              ELSE IF (IF p = backup_path(original_path)
                                       THEN b ELSE t) = FileEntry(p)
                                   THEN Stale ELSE Absent]]
    /\ fs0 = fs
    /\ changeset \in changesets
    /\ workbook = <<>>
    /\ sheet_idx = 1
    /\ output_workbook = <<>>
    /\ pc = "open"
    /\ err = "none"
    /\ cleanup = "none"

\* A call on a destination that holds a sample document, is missing or is no
\* spreadsheet, with nothing, a file, or a link at the backup and temp paths.
Init ==
    InitWith({SourceFile(wb) : wb \in SampleWorkbooks} \cup {Absent, Garbage},
             SampleChangesets, TRUE)

InitMerge ==
    InitWith({SourceFile(wb) : wb \in MergeWorkbooks}, MergeChangesets, FALSE)

Spec == Init /\ [][Next]_vars

SpecMerge == InitMerge /\ [][NextMerge]_vars

\* ------------------------------------------------------------------ claims

Returned == pc \in {"ok", "err"}

\* The errors of lines 15-62, before the commit.
MergeErrors == {"open", "read", "set_name", "write"}

\* C1 as claimed: whenever the call returns an error, at whichever step, the
\* file at the destination path holds what it held before the call.
C1_ErrorLeavesDestination ==
    pc = "err" => FileAt(fs, original_path) = FileAt(fs0, original_path)

\* C2 as claimed: in every state of a call the destination holds its pre-call
\* content or the complete new document, never a partial one.
C2_DestinationOldOrNew ==
    \/ FileAt(fs, original_path) = FileAt(fs0, original_path)
    \/ FileAt(fs, original_path) = Serialize(output_workbook)

\* C3 as claimed: after every successful call whose destination existed
\* before it, no file exists at the backup path.
C3_NoBackupAfterSuccess ==
    (pc = "ok" /\ Exists(fs0, original_path))
        => ~HasEntry(fs, backup_path(original_path))

\* C3 as amended: after every successful call whose destination existed
\* before it, no file exists at the backup path unless the removal of the
\* backup failed.
C3_BackupRemovedUnlessRemovalFails ==
    (pc = "ok" /\ Exists(fs0, original_path))
        => (~HasEntry(fs, backup_path(original_path)) \/ cleanup = "failed")

\* A successful call that found an older file at the backup path, copied the
\* destination over it and removed it.
C3_Witness ==
    /\ pc = "ok"
    /\ cleanup = "removed"
    /\ fs0.dir[backup_path(original_path)] = FileEntry(backup_path(original_path))
    /\ FileAt(fs, original_path) = Serialize(output_workbook)
    /\ ~HasEntry(fs, backup_path(original_path))

\* C4 as claimed: when the call fails at the temp write or at the rename, the
\* backup exists and holds the destination's pre-call content, whatever was
\* at the backup path before the call.
C4_BackupKeptOnFailure ==
    (pc = "err" /\ err \in {"save", "rename"})
        => /\ Exists(fs, backup_path(original_path))
           /\ FileAt(fs, backup_path(original_path)) = FileAt(fs0, original_path)

\* C5 as claimed, for the calls that found nothing at the temp path: after
\* the call, unless it failed at the rename, no file exists at the temp path.
C5_NoTempFileAfterCall ==
    (Returned /\ err # "rename" /\ ~HasEntry(fs0, temp_path(original_path)))
        => ~HasEntry(fs, temp_path(original_path))

\* C9: up to the commit, and when the call fails before it, no file at the
\* destination, backup or temp path has been created, changed or deleted.
C9_NoSideEffectBeforeCommit ==
    (pc \in {"open", "sheets"} \/ (pc = "err" /\ err \in MergeErrors))
        => fs = fs0

\* A cell write failed, with files at all three paths.
C9_Witness ==
    /\ pc = "err"
    /\ err = "write"
    /\ \A p \in Paths : HasEntry(fs0, p)
    /\ fs = fs0

\* The source sheet of the i-th output worksheet, and its positions.
SourceSheets == FileAt(fs0, original_path).sheets
LastRow(sheet) == sheet.start[1] + Height(sheet) - 1
LastCol(sheet) == sheet.start[2] + Width(sheet) - 1
SourceRows(sheet) == sheet.start[1]..LastRow(sheet)
SourceCols(sheet) == sheet.start[2]..LastCol(sheet)
\* The source cell at the absolute position (row, col) of the sheet.
SourceCell(sheet, row, col) ==
    sheet.rows[row - sheet.start[1] + 1][col - sheet.start[2] + 1]
HasEditAt(cs, name, row, col) ==
    \E p \in cs : p[1] = CellCoordinate(name, row, col)

\* The cell the two conversions write.
ConvertedEdit(value) == write_cell_value(NewWorksheet, 0, 0, value).ws.cells[<<0, 0>>]
ConvertedData(data) == write_calamine_data(NewWorksheet, 0, 0, data).ws.cells[<<0, 0>>]

\* The worksheet of the output document that has the sheet's name holds
\* `cell` at (row, col).
OutputHolds(name, row, col, cell) ==
    \E i \in 1..Len(output_workbook) :
        /\ output_workbook[i].name = name
        /\ <<row, col>> \in DOMAIN output_workbook[i].cells
        /\ output_workbook[i].cells[<<row, col>>] = cell

OutputHoldsNothing(name, row, col) ==
    \E i \in 1..Len(output_workbook) :
        /\ output_workbook[i].name = name
        /\ <<row, col>> \notin DOMAIN output_workbook[i].cells

\* C6 as claimed: for every source cell whose coordinate the changeset holds
\* an edit for, the output holds at that row and column of the same-named
\* sheet the conversion of the edit's value.
C6_OverlayPrecedence ==
    pc = "backup" =>
        \A i \in 1..Len(SourceSheets) :
            LET sheet == SourceSheets[i]
            IN  \A row \in SourceRows(sheet), col \in SourceCols(sheet) :
                    \A p \in changeset :
                        p[1] = CellCoordinate(sheet.name, row, col)
                            => OutputHolds(sheet.name, row, col,
                                           ConvertedEdit(p[2].new_value))

\* C7 as claimed: for every source cell whose coordinate the changeset holds
\* no edit for, the output holds at that row and column of the same-named
\* sheet the conversion of the source value, and nothing for an empty cell.
C7_PassThrough ==
    pc = "backup" =>
        \A i \in 1..Len(SourceSheets) :
            LET sheet == SourceSheets[i]
            IN  \A row \in SourceRows(sheet), col \in SourceCols(sheet) :
                    ~HasEditAt(changeset, sheet.name, row, col)
                        => IF SourceCell(sheet, row, col) = DataEmpty
                           THEN OutputHoldsNothing(sheet.name, row, col)
                           ELSE OutputHolds(sheet.name, row, col,
                                    ConvertedData(SourceCell(sheet, row, col)))

\* The whole loop of lines 25-62 with every sheet read: Ok(the worksheets) or
\* the first error.
RECURSIVE MergeFrom(_, _, _, _)
MergeFrom(sheets, cs, i, out) ==
    IF i > Len(sheets)
    THEN [ok |-> TRUE, out |-> out]
    ELSE LET r == CopySheetResult(sheets[i], cs, TRUE)
         IN  IF r.ok THEN MergeFrom(sheets, cs, i + 1, Append(out, r.ws)) ELSE r

\* The edit has no source cell: it names a sheet the source has not, or a row
\* or column outside the populated range of the sheet it names.
OutOfRange(p, sheets) ==
    \A i \in 1..Len(sheets) :
        sheets[i].name = p[1].sheet_name
            => \/ p[1].row \notin SourceRows(sheets[i])
               \/ p[1].col \notin SourceCols(sheets[i])

\* C8 as claimed: an edit of a sheet absent from the source, or of a row or
\* column outside the sheet's populated range, does not make the merge fail
\* and changes nothing: the output document is the one the changeset without
\* the edit gives, a failure to build it is one the changeset without the
\* edit gives too, and the output has the source's sheets and no cell at a
\* row or column outside a sheet's range.
C8_OutOfRangeEditNoOp ==
    \A p \in changeset :
        OutOfRange(p, SourceSheets) =>
            /\ pc = "backup" =>
                /\ MergeFrom(SourceSheets, changeset \ {p}, 1, <<>>)
                      = [ok |-> TRUE, out |-> output_workbook]
                /\ Len(output_workbook) = Len(SourceSheets)
                /\ \A i \in 1..Len(output_workbook) :
                      /\ output_workbook[i].name = SourceSheets[i].name
                      /\ \A pos \in DOMAIN output_workbook[i].cells :
                            /\ pos[1] \in SourceRows(SourceSheets[i])
                            /\ pos[2] \in SourceCols(SourceSheets[i])
            /\ (pc = "err" /\ err \in {"set_name", "write"}) =>
                  MergeFrom(SourceSheets, changeset \ {p}, 1, <<>>) = Err(err)

\* The CellValue of the same logical value as the source cell.
SameValueAsEdit(data) ==
    CASE data.k = "Error" -> CellError(DisplayFmt(data.v))
      [] data.k = "DateTime" -> CellDateTime(data.v.value)
      [] OTHER -> data

\* C10 as claimed: a source cell of a kind the edits share (String, Int,
\* Float, Bool, Error, DateTime) is written as an edit of the same value is;
\* an Error cell is written as the text the error shows as.
C10_SameRules ==
    pc = "backup" =>
        \A i \in 1..Len(SourceSheets) :
            LET sheet == SourceSheets[i]
            IN  \A row \in SourceRows(sheet), col \in SourceCols(sheet) :
                    LET data == SourceCell(sheet, row, col)
                    IN  (/\ ~HasEditAt(changeset, sheet.name, row, col)
                         /\ data.k \in {"String", "Int", "Float", "Bool",
                                        "Error", "DateTime"})
                            => OutputHolds(sheet.name, row, col,
                                           ConvertedEdit(SameValueAsEdit(data)))

====
